---- MODULE Spec2Model ----
(***************************************************************************)
(* Model of .github/scripts/sync_packages.py: the manifest ("packages")    *)
(* synchronisation run.  Text is modelled as sequences of one-character    *)
(* strings so that parsing and formatting are computed, not assumed.       *)
(***************************************************************************)
EXTENDS Integers, Sequences, FiniteSets, TLC

(* ------------------------------------------------------------------ *)
(* Bounds of the model                                                  *)
(* ------------------------------------------------------------------ *)
MaxLines == 2
MaxRuns == 2
MaxFaults == 1

(* ------------------------------------------------------------------ *)
(* Python values                                                        *)
(* ------------------------------------------------------------------ *)
\* Python's None; distinct from every text (texts hold one-character strings).
None == <<"<None>">>

\* Truthiness of an optional text: None and "" are falsy.
Falsy(v) == v = None \/ v = <<>>

Whitespace == {" ", "\n", "\t", "\r"}

Digits == {"0", "1", "2", "3", "4", "5", "6", "7", "8", "9"}

RECURSIVE LStrip(_)
LStrip(s) == IF s # <<>> /\ Head(s) \in Whitespace THEN LStrip(Tail(s)) ELSE s

RECURSIVE RStrip(_)
RStrip(s) ==
    IF s # <<>> /\ s[Len(s)] \in Whitespace
    THEN RStrip(SubSeq(s, 1, Len(s) - 1))
    ELSE s

\* str.strip()
Strip(s) == RStrip(LStrip(s))

\* str.rstrip(";")
RECURSIVE RStripSemi(_)
RStripSemi(s) ==
    IF s # <<>> /\ s[Len(s)] = ";"
    THEN RStripSemi(SubSeq(s, 1, Len(s) - 1))
    ELSE s

\* str.startswith / str.endswith
StartsWith(s, t) == Len(t) <= Len(s) /\ SubSeq(s, 1, Len(t)) = t

EndsWith(s, t) == Len(t) <= Len(s) /\ SubSeq(s, Len(s) - Len(t) + 1, Len(s)) = t

\* Index of the first occurrence of character c in s, 0 if there is none.
RECURSIVE IndexOf(_, _, _)
IndexOf(s, c, i) ==
    IF i > Len(s) THEN 0
    ELSE IF s[i] = c THEN i
    ELSE IndexOf(s, c, i + 1)

\* Index of the last occurrence of character c in s, 0 if there is none.
RECURSIVE LastIndexOf(_, _, _)
LastIndexOf(s, c, i) ==
    IF i < 1 THEN 0
    ELSE IF s[i] = c THEN i
    ELSE LastIndexOf(s, c, i - 1)

\* str.split(c): the pieces between the separators, empty pieces included.
RECURSIVE Split(_, _)
Split(s, c) ==
    LET i == IndexOf(s, c, 1)
    IN  IF i = 0 THEN <<s>>
        ELSE <<SubSeq(s, 1, i - 1)>> \o Split(SubSeq(s, i + 1, Len(s)), c)

\* str.replace(t, ""): every non-overlapping occurrence of t removed, left to right.
RECURSIVE RemoveAll(_, _)
RemoveAll(s, t) ==
    IF s = <<>> THEN <<>>
    ELSE IF StartsWith(s, t) THEN RemoveAll(SubSeq(s, Len(t) + 1, Len(s)), t)
    ELSE <<Head(s)>> \o RemoveAll(Tail(s), t)

\* os.path.basename: what follows the last "/".
Basename(p) == SubSeq(p, LastIndexOf(p, "/", Len(p)) + 1, Len(p))

\* os.path.join(a, b) for two parts.
PathJoin(a, b) ==
    IF b # <<>> /\ Head(b) = "/" THEN b
    ELSE IF a = <<>> \/ a[Len(a)] = "/" THEN a \o b
    ELSE a \o <<"/">> \o b

\* A clone depth: absent (Python's None) or an integer.
NoDepth == [some |-> FALSE, val |-> 0]

\* int(text): the value of an optionally signed run of digits; NoDepth stands for
\* the ValueError branch, where parse_line falls back to depth = None.
DigitValue(c) == CHOOSE n \in 0..9 : <<"0","1","2","3","4","5","6","7","8","9">>[n + 1] = c

RECURSIVE DigitsValue(_, _)
DigitsValue(s, acc) ==
    IF s = <<>> THEN acc ELSE DigitsValue(Tail(s), acc * 10 + DigitValue(Head(s)))

ParseInt(s) ==
    LET neg  == s # <<>> /\ Head(s) = "-"
        body == IF s # <<>> /\ Head(s) \in {"-", "+"} THEN Tail(s) ELSE s
    IN  IF body = <<>> \/ \E i \in 1..Len(body) : body[i] \notin Digits
        THEN NoDepth
        ELSE [some |-> TRUE,
              val  |-> IF neg THEN 0 - DigitsValue(body, 0) ELSE DigitsValue(body, 0)]

(* ------------------------------------------------------------------ *)
(* parse_line                                                           *)
(* ------------------------------------------------------------------ *)
KeyPath == <<"p", "a", "t", "h">>
KeyDepth == <<"d", "e", "p", "t", "h">>
KeyHash == <<"h", "a", "s", "h">>
DotGit == <<".", "g", "i", "t">>

\* One iteration of the loop over parts[1:]: acc holds sub_dir, target_path,
\* depth and current_hash as assigned so far.
ParsePart(acc, rawpart) ==
    LET part == Strip(rawpart)
        eq   == IndexOf(part, "=", 1)
        key  == Strip(SubSeq(part, 1, eq - 1))
        val  == Strip(SubSeq(part, eq + 1, Len(part)))
    IN  IF eq # 0
        THEN IF key = KeyPath THEN [acc EXCEPT !.target_path = val]
             ELSE IF key = KeyDepth THEN [acc EXCEPT !.depth = ParseInt(val)]
             ELSE IF key = KeyHash THEN [acc EXCEPT !.current_hash = val]
             ELSE acc
        ELSE [acc EXCEPT !.sub_dir = part]

RECURSIVE ParseParts(_, _)
ParseParts(acc, parts) ==
    IF parts = <<>> THEN acc
    ELSE ParseParts(ParsePart(acc, Head(parts)), Tail(parts))

\* The destination rule at the end of parse_line.
ResolveTarget(repo_url, sub_dir, target_path) ==
    IF ~Falsy(target_path) /\ ~Falsy(sub_dir)
    THEN IF ~EndsWith(target_path, Basename(sub_dir))
         THEN PathJoin(target_path, Basename(sub_dir))
         ELSE target_path
    ELSE IF ~Falsy(sub_dir) THEN Basename(sub_dir)
    ELSE IF Falsy(target_path) THEN RemoveAll(Basename(repo_url), DotGit)
    ELSE target_path

parse_line(text) ==
    LET raw_line == Strip(text)
        line     == RStripSemi(Strip(text))
        parts    == Split(line, ",")
        repo_url == Strip(parts[1])
        acc      == ParseParts([sub_dir |-> None, target_path |-> None,
                                depth |-> NoDepth, current_hash |-> None],
                               Tail(parts))
    IN  IF line = <<>> \/ Head(line) = "#"
        THEN [repo_url |-> None, sub_dir |-> None, target_path |-> None,
              depth |-> NoDepth, current_hash |-> None, raw_line |-> raw_line]
        ELSE [repo_url |-> repo_url, sub_dir |-> acc.sub_dir,
              target_path |-> ResolveTarget(repo_url, acc.sub_dir, acc.target_path),
              depth |-> acc.depth, current_hash |-> acc.current_hash,
              raw_line |-> raw_line]

(* ------------------------------------------------------------------ *)
(* Paths of the local tree                                              *)
(* ------------------------------------------------------------------ *)
\* The working directory of the run (the repository root), as the list of the
\* components of its absolute path.
Cwd == << <<"h">>, <<"w">> >>

\* os.path.normpath over the components: "" and "." dropped, ".." climbs.
RECURSIVE Normalize(_, _)
Normalize(base, comps) ==
    IF comps = <<>> THEN base
    ELSE LET c == Head(comps)
         IN  IF c = <<>> \/ c = <<".">> THEN Normalize(base, Tail(comps))
             ELSE IF c = <<".", ".">>
             THEN Normalize(IF base = <<>> THEN <<>> ELSE SubSeq(base, 1, Len(base) - 1),
                            Tail(comps))
             ELSE Normalize(Append(base, c), Tail(comps))

\* os.path.abspath
AbsPath(p) ==
    IF p # <<>> /\ Head(p) = "/"
    THEN Normalize(<<>>, Split(p, "/"))
    ELSE Normalize(Cwd, Split(p, "/"))

\* a is b or an ancestor directory of b
IsPrefix(a, b) == Len(a) <= Len(b) /\ SubSeq(b, 1, Len(a)) = a

RECURSIVE CommonLen(_, _)
CommonLen(a, b) ==
    IF a = <<>> \/ b = <<>> \/ Head(a) # Head(b) THEN 0
    ELSE 1 + CommonLen(Tail(a), Tail(b))

RECURSIVE JoinComps(_)
JoinComps(comps) ==
    IF comps = <<>> THEN <<>>
    ELSE IF Len(comps) = 1 THEN Head(comps)
    ELSE Head(comps) \o <<"/">> \o JoinComps(Tail(comps))

\* os.path.relpath(p, "."), for a non-empty p
RelPath(p) ==
    LET abs  == AbsPath(p)
        i    == CommonLen(Cwd, abs)
        ups  == [k \in 1..(Len(Cwd) - i) |-> <<".", ".">>]
        rest == ups \o SubSeq(abs, i + 1, Len(abs))
    IN  IF rest = <<>> THEN <<".">> ELSE JoinComps(rest)

(* ------------------------------------------------------------------ *)
(* Inputs: manifests, remote revisions                                  *)
(* ------------------------------------------------------------------ *)
RevA == <<"a">>
RevB == <<"b">>
Revisions == {RevA, RevB}

\* Two remote locations with the same repository basename "r".
LocX == <<"x", "/", "r", ".", "g", "i", "t">>
LocY == <<"y", "/", "r", ".", "g", "i", "t">>
Locations == {LocX, LocY}

PathEq == <<",">> \o KeyPath \o <<"=">>
HashEq == <<",">> \o KeyHash \o <<"=">>
DepthEq == <<",">> \o KeyDepth \o <<"=">>

\* "# n"
LineComment == <<"#", " ", "n", "\n">>
\* ""
LineBlank == <<"\n">>
\* ",s": an entry-shaped line with an empty location
LineNoLoc == <<",", "s", "\n">>
\* "x/r.git,s/d,path=v,hash=a;"
LineXvd == LocX \o <<",", "s", "/", "d">> \o PathEq \o <<"v">> \o HashEq \o RevA \o <<";", "\n">>
\* "x/r.git,s/e,depth=1"
LineXe == LocX \o <<",", "s", "/", "e">> \o DepthEq \o <<"1", "\n">>
\* "y/r.git,path=.,hash=b"
LineYroot == LocY \o PathEq \o <<".">> \o HashEq \o RevB \o <<"\n">>
\* "y/r.git,path=.."
LineYup == LocY \o PathEq \o <<".", ".", "\n">>

LinePool == {LineComment, LineBlank, LineNoLoc, LineXvd, LineXe, LineYroot, LineYup}

RECURSIVE SeqsUpTo(_, _)
SeqsUpTo(S, n) ==
    IF n = 0 THEN {<<>>}
    ELSE LET shorter == SeqsUpTo(S, n - 1)
         IN  shorter \cup {Append(m, l) : m \in shorter, l \in S}

Manifests == SeqsUpTo(LinePool, MaxLines)

(* ------------------------------------------------------------------ *)
(* State                                                                *)
(* ------------------------------------------------------------------ *)
VARIABLES
    packages_file,    \* the file "packages": [exists, lines]
    synced_file,      \* the file ".github/synced_paths": [exists, lines]
    fs,               \* absolute path -> content placed there
    root_removed,     \* the working directory itself has been deleted
    scratch,          \* repo names n for which /tmp/n exists
    upstream,         \* location -> head revision of refs/heads/main
    pc,               \* position of the run in sync_repositories
    run,              \* number of runs started
    faults,           \* failures of the environment so far (at most MaxFaults)
    packages_lines,   \* local: lines read so far
    packages_entries, \* local: entries evaluated so far
    updated_entries,  \* local: dict repo_url -> regenerated entry
    synced_paths,     \* local: paths recorded in this run
    ent,              \* local: index into packages_entries of the entry at hand
    log,              \* history: steps of this run, in order
    prev,             \* history: how the previous run ended, and what it left
    given             \* input: the fields a one-line manifest was written from

vars == <<packages_file, synced_file, fs, root_removed, scratch, upstream, pc, run,
          faults, packages_lines, packages_entries, updated_entries, synced_paths,
          ent, log, prev, given>>

files == <<packages_file, synced_file, fs, root_removed, scratch>>
locals == <<packages_lines, packages_entries, updated_entries, synced_paths, ent>>

\* Content of a destination: the revision last copied there, and whether files
\* of an earlier content are still lying under it.
Content(rev, residue) == [rev |-> rev, residue |-> residue]

\* The tree of a repository whose manifest is m before the first run: every
\* entry with a recorded revision has that revision at its destination.
InitialFs(m) ==
    LET parsed == [i \in 1..Len(m) |-> parse_line(m[i])]
        synced == {i \in 1..Len(m) : ~Falsy(parsed[i].repo_url)
                                      /\ ~Falsy(parsed[i].current_hash)
                                      /\ ~Falsy(parsed[i].target_path)}
        paths  == {AbsPath(parsed[i].target_path) : i \in synced}
    IN  [q \in paths |->
            LET i == CHOOSE k \in synced :
                        /\ AbsPath(parsed[k].target_path) = q
                        /\ \A j \in synced : AbsPath(parsed[j].target_path) = q => j <= k
            IN  Content(parsed[i].current_hash, FALSE)]

NoFile == [exists |-> FALSE, lines |-> <<>>]

NoRun == [pc |-> "none", probe_failed |-> {}, packages |-> NoFile, synced |-> NoFile]

NoGiven == [location |-> None, subpath |-> None, path |-> None]

\* An empty dict
EmptyDict == [u \in {} |-> None]

Init ==
    /\ \/ \E m \in Manifests :
             /\ packages_file = [exists |-> TRUE, lines |-> m]
             /\ fs = InitialFs(m)
       \/ /\ packages_file = NoFile
          /\ fs = InitialFs(<<>>)
    /\ synced_file = [exists |-> TRUE, lines |-> << <<"o">> >>]
    /\ root_removed = FALSE
    /\ scratch = {}
    /\ upstream \in [Locations -> Revisions]
    /\ pc = "idle"
    /\ run = 0
    /\ faults = 0
    /\ packages_lines = <<>>
    /\ packages_entries = <<>>
    /\ updated_entries = EmptyDict
    /\ synced_paths = <<>>
    /\ ent = 0
    /\ log = <<>>
    /\ prev = NoRun
    /\ given = NoGiven

(* ------------------------------------------------------------------ *)
(* Helpers of the run                                                   *)
(* ------------------------------------------------------------------ *)
Event(op, line) == [op |-> op, line |-> line]

\* dict assignment d[k] = v
DictPut(d, k, v) == [u \in DOMAIN d \cup {k} |-> IF u = k THEN v ELSE d[u]]

\* The first entry at or after position k that needs_sync (the loop at
\* "for entry in packages_entries" skips the others), 0 if there is none.
NextStale(entries, k) ==
    LET later == {j \in k..Len(entries) : entries[j].needs_sync}
    IN  IF later = {} THEN 0 ELSE CHOOSE j \in later : \A i \in later : j <= i

\* os.path.exists for a path of the local tree
Exists(abs) ==
    \/ ~root_removed /\ IsPrefix(abs, Cwd)
    \/ \E k \in DOMAIN fs : IsPrefix(abs, k)

\* repo_name = os.path.basename(repo_url).replace(".git", "")
RepoName(repo_url) == RemoveAll(Basename(repo_url), DotGit)

\* The line update_packages_file writes for an updated entry.
CanonicalLine(new_entry) ==
    new_entry.repo_url \o PathEq \o new_entry.target_path
        \o HashEq \o new_entry.latest_hash \o <<"\n">>

\* UpdatedLine with a slip: a comment or blank line is written stripped.
UpdatedLine_stripped(line, updated) ==
    LET stripped_line == Strip(line)
        repo_url      == parse_line(line).repo_url
    IN  IF stripped_line = <<>> \/ Head(stripped_line) = "#" THEN stripped_line
        ELSE IF ~Falsy(repo_url) /\ repo_url \in DOMAIN updated
        THEN CanonicalLine(updated[repo_url])
        ELSE line

\* The line update_packages_file writes for one input line.
UpdatedLine(line, updated) ==
    LET stripped_line == Strip(line)
        repo_url      == parse_line(line).repo_url
    IN  IF stripped_line = <<>> \/ Head(stripped_line) = "#" THEN line
        ELSE IF ~Falsy(repo_url) /\ repo_url \in DOMAIN updated
        THEN CanonicalLine(updated[repo_url])
        ELSE line

update_packages_file(lines, updated) ==
    [i \in 1..Len(lines) |-> UpdatedLine(lines[i], updated)]

(* ------------------------------------------------------------------ *)
(* sync_repositories: start, and the loop that reads and probes         *)
(* ------------------------------------------------------------------ *)
\* The lines whose probe failed, among the steps of a run.
ProbeFailed(steps) == {steps[k].line : k \in {j \in 1..Len(steps) : steps[j].op = "probe_fail"}}

RunOver == pc \in {"idle", "done", "crashed", "aborted"}

\* Where the run goes once the entry at position k - 1 is dealt with.
Continue(entries, k) ==
    IF NextStale(entries, k) = 0 THEN "write_synced" ELSE "clean"

\* StartRun with a slip: no test that the manifest exists.
StartRun_unchecked ==
    /\ RunOver
    /\ run < MaxRuns
    /\ run' = run + 1
    /\ prev' = [pc |-> pc, probe_failed |-> ProbeFailed(log),
                packages |-> packages_file, synced |-> synced_file]
    /\ faults' = faults
    /\ log' = <<>>
    /\ packages_lines' = <<>>
    /\ packages_entries' = <<>>
    /\ updated_entries' = EmptyDict
    /\ synced_paths' = <<>>
    /\ ent' = 0
    /\ given' = given
    /\ pc' = IF packages_file.lines = <<>> THEN "write_synced" ELSE "read"
    /\ UNCHANGED <<files, upstream>>

StartRun ==
    /\ RunOver
    /\ run < MaxRuns
    /\ run' = run + 1
    /\ prev' = [pc |-> pc, probe_failed |-> ProbeFailed(log),
                packages |-> packages_file, synced |-> synced_file]
    /\ faults' = faults
    /\ log' = <<>>
    /\ packages_lines' = <<>>
    /\ packages_entries' = <<>>
    /\ updated_entries' = EmptyDict
    /\ synced_paths' = <<>>
    /\ ent' = 0
    /\ given' = given
    /\ pc' = IF ~packages_file.exists THEN "aborted"
             ELSE IF packages_file.lines = <<>> THEN "write_synced"
             ELSE "read"
    /\ UNCHANGED <<files, upstream>>

\* AfterRead with a slip: the second loop starts as soon as a line has been
\* read, whatever lines are left.
AfterRead_eager(i, entries) == Continue(entries, 1)

\* The position after line i has been read: the next line, or the second loop.
AfterRead(i, entries) ==
    IF i < Len(packages_file.lines) THEN "read" ELSE Continue(entries, 1)

\* A blank line, a comment, or a line whose location is empty.
ReadNonEntry ==
    /\ pc = "read"
    /\ LET i == Len(packages_lines) + 1
           e == parse_line(packages_file.lines[i])
       IN  /\ Falsy(e.repo_url)
           /\ packages_lines' = Append(packages_lines, packages_file.lines[i])
           /\ pc' = AfterRead(i, packages_entries)
           /\ ent' = NextStale(packages_entries, 1)
    /\ UNCHANGED <<files, upstream, run, faults, packages_entries, updated_entries,
                   synced_paths, log, prev, given>>

\* get_latest_commit_hash returns None.
ReadProbeFail ==
    /\ pc = "read"
    /\ LET i == Len(packages_lines) + 1
           e == parse_line(packages_file.lines[i])
       IN  /\ ~Falsy(e.repo_url)
           /\ \/ e.repo_url \notin DOMAIN upstream /\ faults' = faults
              \/ faults < MaxFaults /\ faults' = faults + 1
           /\ packages_lines' = Append(packages_lines, packages_file.lines[i])
           /\ log' = Append(log, Event("probe_fail", i))
           /\ pc' = AfterRead(i, packages_entries)
           /\ ent' = NextStale(packages_entries, 1)
    /\ UNCHANGED <<files, upstream, run, packages_entries, updated_entries,
                   synced_paths, prev, given>>

\* get_latest_commit_hash returns the head revision; the entry is evaluated.
ReadProbeOk ==
    /\ pc = "read"
    /\ LET i == Len(packages_lines) + 1
           e == parse_line(packages_file.lines[i])
       IN  /\ ~Falsy(e.repo_url)
           /\ e.repo_url \in DOMAIN upstream
           /\ LET latest_hash == upstream[e.repo_url]
                  needs_sync  == Falsy(e.current_hash) \/ e.current_hash # latest_hash
                  entry == [repo_url |-> e.repo_url, sub_dir |-> e.sub_dir,
                            target_path |-> e.target_path, depth |-> e.depth,
                            current_hash |-> e.current_hash,
                            latest_hash |-> latest_hash, needs_sync |-> needs_sync,
                            raw_line |-> e.raw_line, line |-> i]
                  entries == Append(packages_entries, entry)
              IN  /\ packages_entries' = entries
                  /\ updated_entries' =
                        IF needs_sync
                        THEN DictPut(updated_entries, e.repo_url,
                                     [repo_url |-> e.repo_url,
                                      target_path |-> e.target_path,
                                      latest_hash |-> latest_hash])
                        ELSE updated_entries
                  /\ pc' = AfterRead(i, entries)
                  /\ ent' = NextStale(entries, 1)
           /\ packages_lines' = Append(packages_lines, packages_file.lines[i])
           /\ log' = Append(log, Event(IF upstream[e.repo_url] = e.current_hash
                                       THEN "probe_same" ELSE "probe_new", i))
    /\ UNCHANGED <<files, upstream, run, faults, synced_paths, prev, given>>

(* ------------------------------------------------------------------ *)
(* sync_repositories: the loop that materializes the stale entries      *)
(* ------------------------------------------------------------------ *)
Entry == packages_entries[ent]

\* "continue", or the end of the loop body: on to the next stale entry.
NextEntry ==
    /\ ent' = NextStale(packages_entries, ent + 1)
    /\ pc' = Continue(packages_entries, ent + 1)

\* What rmtree(abs) leaves of the tree.
Without(tree, abs) ==
    [q \in {k \in DOMAIN tree : ~IsPrefix(abs, k)} |-> tree[q]]

\* clean_existing_files: nothing to remove (empty path, the working directory
\* itself, or a path that does not exist).
CleanSkip ==
    /\ pc = "clean"
    /\ \/ Falsy(Entry.target_path)
       \/ /\ ~root_removed
          /\ \/ AbsPath(Entry.target_path) = Cwd
             \/ ~Exists(AbsPath(Entry.target_path))
    /\ log' = Append(log, Event(IF ~Falsy(Entry.target_path)
                                   /\ AbsPath(Entry.target_path) # Cwd
                                THEN "clean_absent" ELSE "clean_refused", Entry.line))
    /\ pc' = "clone"
    /\ UNCHANGED <<files, upstream, run, faults, locals, prev, given>>

\* CleanRemove with a slip: no comparison with the working directory.
CleanRemove_unguarded ==
    /\ pc = "clean"
    /\ ~Falsy(Entry.target_path)
    /\ ~root_removed
    /\ LET abs == AbsPath(Entry.target_path)
       IN  /\ Exists(abs)
           /\ fs' = Without(fs, abs)
           /\ IF IsPrefix(abs, Cwd)
              THEN /\ root_removed' = TRUE
                   /\ packages_file' = NoFile
                   /\ synced_file' = NoFile
              ELSE UNCHANGED <<root_removed, packages_file, synced_file>>
    /\ log' = Append(log, Event("clean", Entry.line))
    /\ pc' = "clone"
    /\ UNCHANGED <<scratch, upstream, run, faults, locals, prev, given>>

\* clean_existing_files: the existing path is removed, with all below it.
CleanRemove ==
    /\ pc = "clean"
    /\ ~Falsy(Entry.target_path)
    /\ ~root_removed
    /\ LET abs == AbsPath(Entry.target_path)
       IN  /\ abs # Cwd
           /\ Exists(abs)
           /\ fs' = Without(fs, abs)
           /\ IF IsPrefix(abs, Cwd)
              THEN /\ root_removed' = TRUE
                   /\ packages_file' = NoFile
                   /\ synced_file' = NoFile
              ELSE UNCHANGED <<root_removed, packages_file, synced_file>>
    /\ log' = Append(log, Event("clean", Entry.line))
    /\ pc' = "clone"
    /\ UNCHANGED <<scratch, upstream, run, faults, locals, prev, given>>

\* CleanFail with a slip: a removal that raises gives the entry up.
CleanFail_abort ==
    /\ pc = "clean"
    /\ ~Falsy(Entry.target_path)
    /\ ~root_removed
    /\ AbsPath(Entry.target_path) # Cwd
    /\ Exists(AbsPath(Entry.target_path))
    /\ faults < MaxFaults
    /\ faults' = faults + 1
    /\ log' = Append(log, Event("clean_fail", Entry.line))
    /\ NextEntry
    /\ UNCHANGED <<files, upstream, run, packages_lines, packages_entries,
                   updated_entries, synced_paths, prev, given>>

\* clean_existing_files: the removal raises; the exception is printed.
CleanFail ==
    /\ pc = "clean"
    /\ ~Falsy(Entry.target_path)
    /\ ~root_removed
    /\ AbsPath(Entry.target_path) # Cwd
    /\ Exists(AbsPath(Entry.target_path))
    /\ faults < MaxFaults
    /\ faults' = faults + 1
    /\ log' = Append(log, Event("clean_fail", Entry.line))
    /\ pc' = "clone"
    /\ UNCHANGED <<files, upstream, run, locals, prev, given>>

\* clean_existing_files in a deleted working directory: os.path.abspath
\* raises, nothing catches it.
CleanCrash ==
    /\ pc = "clean"
    /\ ~Falsy(Entry.target_path)
    /\ root_removed
    /\ log' = Append(log, Event("crash_clean", Entry.line))
    /\ pc' = "crashed"
    /\ UNCHANGED <<files, upstream, run, faults, locals, prev, given>>

\* git clone succeeds into /tmp/<repo_name>.
CloneOk ==
    /\ pc = "clone"
    /\ RepoName(Entry.repo_url) \notin scratch
    /\ scratch' = scratch \cup {RepoName(Entry.repo_url)}
    /\ log' = Append(log, Event(IF Entry.depth.some /\ Entry.depth.val # 0
                                THEN "clone_shallow" ELSE "clone_full", Entry.line))
    /\ pc' = "strip"
    /\ UNCHANGED <<packages_file, synced_file, fs, root_removed, upstream, run,
                   faults, locals, prev, given>>

\* git clone exits non-zero: always when /tmp/<repo_name> is already there
\* (and not empty), otherwise as a failure of the remote.
CloneFail ==
    /\ pc = "clone"
    /\ \/ RepoName(Entry.repo_url) \in scratch /\ faults' = faults
       \/ /\ RepoName(Entry.repo_url) \notin scratch
          /\ faults < MaxFaults
          /\ faults' = faults + 1
    /\ log' = Append(log, Event("clone_fail", Entry.line))
    /\ NextEntry
    /\ UNCHANGED <<files, upstream, run, packages_lines, packages_entries,
                   updated_entries, synced_paths, prev, given>>

\* shutil.rmtree(git_dir)
StripOk ==
    /\ pc = "strip"
    /\ log' = Append(log, Event("strip", Entry.line))
    /\ pc' = "mkdir"
    /\ UNCHANGED <<files, upstream, run, faults, locals, prev, given>>

\* shutil.rmtree(git_dir) raises; nothing catches it.
StripCrash ==
    /\ pc = "strip"
    /\ faults < MaxFaults
    /\ faults' = faults + 1
    /\ log' = Append(log, Event("crash_strip", Entry.line))
    /\ pc' = "crashed"
    /\ UNCHANGED <<files, upstream, run, locals, prev, given>>

\* Path(target_path).parent.mkdir(parents=True, exist_ok=True)
MkdirOk ==
    /\ pc = "mkdir"
    /\ log' = Append(log, Event("mkdir", Entry.line))
    /\ pc' = "copy"
    /\ UNCHANGED <<files, upstream, run, faults, locals, prev, given>>

\* mkdir raises; nothing catches it.
MkdirCrash ==
    /\ pc = "mkdir"
    /\ faults < MaxFaults
    /\ faults' = faults + 1
    /\ log' = Append(log, Event("crash_mkdir", Entry.line))
    /\ pc' = "crashed"
    /\ UNCHANGED <<files, upstream, run, locals, prev, given>>

\* shutil.copytree(source_path, target_path, dirs_exist_ok=True) succeeds: the
\* clone's content is at the destination, over whatever was there.
CopyOk ==
    /\ pc = "copy"
    /\ ~Falsy(Entry.target_path)
    /\ LET abs == AbsPath(Entry.target_path)
       IN  fs' = [q \in DOMAIN fs \cup {abs} |->
                    IF q = abs THEN Content(upstream[Entry.repo_url], Exists(abs))
                    ELSE fs[q]]
    /\ log' = Append(log, Event("copy", Entry.line))
    /\ pc' = "record"
    /\ UNCHANGED <<packages_file, synced_file, root_removed, scratch, upstream, run,
                   faults, locals, prev, given>>

\* copytree raises (always for an empty target_path); the entry is given up,
\* and the scratch directory stays.
CopyFail ==
    /\ pc = "copy"
    /\ \/ Falsy(Entry.target_path) /\ faults' = faults
       \/ ~Falsy(Entry.target_path) /\ faults < MaxFaults /\ faults' = faults + 1
    /\ log' = Append(log, Event("copy_fail", Entry.line))
    /\ NextEntry
    /\ UNCHANGED <<files, upstream, run, packages_lines, packages_entries,
                   updated_entries, synced_paths, prev, given>>

\* synced_paths.append(os.path.relpath(target_path, "."))
Record ==
    /\ pc = "record"
    /\ ~root_removed
    /\ synced_paths' = Append(synced_paths, RelPath(Entry.target_path))
    /\ log' = Append(log, Event("record", Entry.line))
    /\ pc' = "cleanup"
    /\ UNCHANGED <<files, upstream, run, faults, packages_lines, packages_entries,
                   updated_entries, ent, prev, given>>

\* os.path.relpath in a deleted working directory raises; nothing catches it.
RecordCrash ==
    /\ pc = "record"
    /\ root_removed
    /\ log' = Append(log, Event("crash_record", Entry.line))
    /\ pc' = "crashed"
    /\ UNCHANGED <<files, upstream, run, faults, locals, prev, given>>

\* shutil.rmtree(temp_dir)
CleanupOk ==
    /\ pc = "cleanup"
    /\ scratch' = scratch \ {RepoName(Entry.repo_url)}
    /\ log' = Append(log, Event("cleanup", Entry.line))
    /\ NextEntry
    /\ UNCHANGED <<packages_file, synced_file, fs, root_removed, upstream, run,
                   faults, packages_lines, packages_entries, updated_entries,
                   synced_paths, prev, given>>

\* shutil.rmtree(temp_dir) raises; nothing catches it.
CleanupCrash ==
    /\ pc = "cleanup"
    /\ faults < MaxFaults
    /\ faults' = faults + 1
    /\ log' = Append(log, Event("crash_cleanup", Entry.line))
    /\ pc' = "crashed"
    /\ UNCHANGED <<files, upstream, run, locals, prev, given>>

(* ------------------------------------------------------------------ *)
(* sync_repositories: the two files written at the end                  *)
(* ------------------------------------------------------------------ *)
\* with open(SYNCED_PATHS_FILE, "w") ...
WriteSyncedPaths ==
    /\ pc = "write_synced"
    /\ ~root_removed
    /\ synced_file' = [exists |-> TRUE, lines |-> synced_paths]
    /\ log' = Append(log, Event("write_synced", 0))
    /\ pc' = "write_packages"
    /\ UNCHANGED <<packages_file, fs, root_removed, scratch, upstream, run, faults,
                   locals, prev, given>>

\* open(SYNCED_PATHS_FILE, "w") in a deleted working directory raises.
WriteSyncedCrash ==
    /\ pc = "write_synced"
    /\ root_removed
    /\ log' = Append(log, Event("crash_write", 0))
    /\ pc' = "crashed"
    /\ UNCHANGED <<files, upstream, run, faults, locals, prev, given>>

\* update_packages_file(packages_lines, updated_entries)
WritePackages ==
    /\ pc = "write_packages"
    /\ packages_file' = [exists |-> TRUE,
                         lines  |-> update_packages_file(packages_lines, updated_entries)]
    /\ log' = Append(log, Event("write_packages", 0))
    /\ pc' = "done"
    /\ UNCHANGED <<synced_file, fs, root_removed, scratch, upstream, run, faults,
                   locals, prev, given>>

Next ==
    \/ StartRun
    \/ ReadNonEntry
    \/ ReadProbeFail
    \/ ReadProbeOk
    \/ CleanSkip
    \/ CleanRemove
    \/ CleanFail
    \/ CleanCrash
    \/ CloneOk
    \/ CloneFail
    \/ StripOk
    \/ StripCrash
    \/ MkdirOk
    \/ MkdirCrash
    \/ CopyOk
    \/ CopyFail
    \/ Record
    \/ RecordCrash
    \/ CleanupOk
    \/ CleanupCrash
    \/ WriteSyncedPaths
    \/ WriteSyncedCrash
    \/ WritePackages

Spec == Init /\ [][Next]_vars

(* ------------------------------------------------------------------ *)
(* A second specification: one-line manifests written from given fields *)
(* ------------------------------------------------------------------ *)
\* "x/r", and "x/r.gitx" where ".git" is not at the end
LocPlain == <<"x", "/", "r">>
LocInner == <<"x", "/", "r", ".", "g", "i", "t", "x">>
ParseLocations == {LocX, LocPlain, LocInner}

\* no subpath, "s/d", "d", and "s/" whose last component is empty
ParseSubpaths == {None, <<"s", "/", "d">>, <<"d">>, <<"s", "/">>}

ParsePaths == {None, <<"v">>, <<"v", "/", "d">>, <<"v", "/", "m", "d">>}

ParseInputs ==
    [location : ParseLocations, subpath : ParseSubpaths, path : ParsePaths]

\* The manifest line "location[,subpath][,path=<path>]"
FormatLine(g) ==
    g.location
        \o (IF g.subpath = None THEN <<>> ELSE <<",">> \o g.subpath)
        \o (IF g.path = None THEN <<>> ELSE PathEq \o g.path)
        \o <<"\n">>

InitParse ==
    /\ given \in ParseInputs
    /\ packages_file = [exists |-> TRUE, lines |-> <<FormatLine(given)>>]
    /\ fs = InitialFs(<<>>)
    /\ synced_file = [exists |-> TRUE, lines |-> <<>>]
    /\ root_removed = FALSE
    /\ scratch = {}
    /\ upstream = [l \in ParseLocations |-> RevB]
    /\ pc = "idle"
    /\ run = 0
    /\ faults = 0
    /\ packages_lines = <<>>
    /\ packages_entries = <<>>
    /\ updated_entries = EmptyDict
    /\ synced_paths = <<>>
    /\ ent = 0
    /\ log = <<>>
    /\ prev = NoRun

NextParse ==
    \/ StartRun
    \/ ReadProbeFail
    \/ ReadProbeOk

SpecParse == InitParse /\ [][NextParse]_vars

(* ------------------------------------------------------------------ *)
(* Reading the history of a run                                         *)
(* ------------------------------------------------------------------ *)
\* Some step op of this run concerned the entry on line i.
Did(op, i) == \E k \in 1..Len(log) : log[k].op = op /\ log[k].line = i

\* The lines of the manifest read in this run that hold an entry.
EntryLines == {i \in 1..Len(packages_lines) : ~Falsy(parse_line(packages_lines[i]).repo_url)}

\* The entries this run found stale (needs_sync).
StaleLines == {packages_entries[k].line :
                  k \in {j \in 1..Len(packages_entries) : packages_entries[j].needs_sync}}

\* Line i was touched by the Clean step or the clone.
Touched(i) ==
    \/ Did("clean", i) \/ Did("clean_fail", i)
    \/ Did("clean_absent", i) \/ Did("clean_refused", i)
    \/ Did("clone_full", i) \/ Did("clone_shallow", i) \/ Did("clone_fail", i)

\* Line i of the rewritten manifest is the line that was read.
Kept(i) == packages_file.lines[i] = packages_lines[i]

(* ------------------------------------------------------------------ *)
(* Claims                                                               *)
(* ------------------------------------------------------------------ *)
\* C1 (as claimed): at the end of a run, an entry line has been replaced by a
\* regenerated line if and only if the entry was stale and its materialization
\* reached the record-success step; an entry whose clone or copy failed keeps
\* its line.
C1_ReplacedIffRecorded ==
    pc = "done" =>
        \A i \in EntryLines : (~Kept(i)) <=> (i \in StaleLines /\ Did("record", i))

\* C2 (as claimed): an entry whose probe fails is not cleaned, not cloned, and
\* keeps its line byte for byte, also when another entry has its location;
\* every other entry is still evaluated and, where stale, attempted.
C2_FailedProbeUntouched ==
    pc = "done" =>
        \A i \in ProbeFailed(log) :
            /\ ~Touched(i)
            /\ Kept(i)
            /\ \A j \in EntryLines \ ProbeFailed(log) :
                  /\ Did("probe_same", j) \/ Did("probe_new", j)
                  /\ j \in StaleLines => Touched(j)

\* The run at hand follows a run that opened the manifest, and has seen the
\* probes fail on the same lines as that run did (the remote did not change:
\* upstream is the same in every run).
SecondRunSameProbes ==
    /\ run >= 2
    /\ pc \notin {"read", "aborted"}
    /\ prev.pc \in {"done", "crashed"}
    /\ ProbeFailed(log) = prev.probe_failed

\* What an idempotent second run shows: nothing attempted, and once it is over
\* the manifest as the run before left it and an empty synced-paths file.
NothingToDo ==
    /\ \A i \in 1..Len(packages_lines) : ~Touched(i)
    /\ pc = "done" => /\ packages_file = prev.packages
                      /\ synced_file = [exists |-> TRUE, lines |-> <<>>]

\* C3 (as claimed): whatever the outcome of the first run, a second run that
\* sees the same probe results attempts no materialization, leaves the
\* manifest as the first run left it and writes an empty synced-paths file.
C3_SecondRunIdle == SecondRunSameProbes => NothingToDo

\* C3, for a first run that reached the two writes: then the second run is idle.
C3_SecondRunIdleAfterWrite == (SecondRunSameProbes /\ prev.pc = "done") => NothingToDo

\* A text is one line: no newline but at its end.
OneLine(l) == \A k \in 1..Len(l) : l[k] = "\n" => k = Len(l)

\* C4: the rewritten manifest has as many lines as the one read, line i holds
\* the entry of line i (same location), every line but the last ends in a
\* newline and holds no other, and every line that is not an entry (blank,
\* comment, empty location) is byte for byte the line read.
C4_StructurePreserved ==
    pc = "done" =>
        /\ Len(packages_file.lines) = Len(packages_lines)
        /\ \A i \in 1..Len(packages_lines) :
              /\ OneLine(packages_file.lines[i])
              /\ i < Len(packages_lines) =>
                    /\ packages_file.lines[i] # <<>>
                    /\ packages_file.lines[i][Len(packages_file.lines[i])] = "\n"
              /\ i \notin EntryLines => Kept(i)
              /\ i \in EntryLines =>
                    parse_line(packages_file.lines[i]).repo_url
                        = parse_line(packages_lines[i]).repo_url

\* C4 witness: a run rewrote an entry line of a manifest that also holds a
\* line that is not an entry.
C4_Witness ==
    /\ pc = "done"
    /\ \E i \in EntryLines : ~Kept(i)
    /\ \E i \in 1..Len(packages_lines) : i \notin EntryLines

\* C5 (as claimed): an entry probed and found at its recorded revision is not
\* cleaned, cloned or copied, and keeps its line byte for byte, whatever
\* happens to the other entries.
C5_UpToDateUntouched ==
    pc = "done" =>
        \A i \in EntryLines : Did("probe_same", i) => ~Touched(i) /\ Kept(i)

\* The destination rule as the specification words it.
LastComponent(p) == Basename(p)

StripGitSuffix(n) ==
    IF EndsWith(n, DotGit) THEN SubSeq(n, 1, Len(n) - Len(DotGit)) ELSE n

SpecDestination(location, subpath, path) ==
    IF path # None /\ subpath # None
    THEN IF LastComponent(path) = LastComponent(subpath) THEN path
         ELSE PathJoin(path, LastComponent(subpath))
    ELSE IF path # None THEN path
    ELSE IF subpath # None THEN LastComponent(subpath)
    ELSE StripGitSuffix(LastComponent(location))

\* C6 (as claimed): the destination parse_line derives is the one of the
\* priority rules: path kept when its last component is the subpath's, else
\* path joined with the subpath's last component; path alone as it is; subpath
\* alone its last component; neither, the location's last component without a
\* trailing ".git".
C6_DestinationRule ==
    \A k \in 1..Len(packages_entries) :
        packages_entries[k].target_path
            = SpecDestination(given.location, given.subpath, given.path)

\* The Clean step is at an entry whose destination resolves to the working
\* root, the root being there.
CleanAtRoot ==
    /\ pc = "clean"
    /\ ~root_removed
    /\ ~Falsy(Entry.target_path)
    /\ AbsPath(Entry.target_path) = Cwd

\* The Clean step is at an entry whose destination resolves to a directory
\* above the working root.
CleanAboveRoot ==
    /\ pc = "clean"
    /\ ~Falsy(Entry.target_path)
    /\ AbsPath(Entry.target_path) # Cwd
    /\ IsPrefix(AbsPath(Entry.target_path), Cwd)

\* Clean of a destination that is the working root removes nothing, and the
\* entry goes on to the clone.
RootRefused ==
    CleanAtRoot => /\ fs' = fs
                   /\ root_removed' = root_removed
                   /\ packages_file' = packages_file
                   /\ pc' = "clone"

\* C7 (as claimed): Clean of a destination that resolves to the working root
\* removes nothing and the entry goes on with fetch and place; the working
\* root is never deleted in any reachable state.
C7_RootNeverDeleted == [][RootRefused]_vars /\ [](~root_removed)

\* C7 (amended): while the working root is there, Clean of a destination that
\* resolves to it removes nothing and the entry goes on to the fetch; the
\* working root is deleted only by the Clean step of an entry whose
\* destination resolves to a directory above the root.
C7_RootRefused ==
    [][RootRefused /\ (root_removed' /\ ~root_removed => CleanAboveRoot)]_vars

\* C7 witness: a stale entry whose destination is the working root was
\* refused by Clean, then cloned and copied, the root still there.
C7_Witness ==
    /\ ~root_removed
    /\ \E k \in 1..Len(packages_entries) :
          /\ packages_entries[k].needs_sync
          /\ AbsPath(packages_entries[k].target_path) = Cwd
          /\ Did("clean_refused", packages_entries[k].line)
          /\ Did("copy", packages_entries[k].line)

\* C8 (as claimed): with a copy failure as the only failure of the
\* environment in a first run, every later stale entry is still materialized
\* and recorded, also one whose scratch directory /tmp/<basename> is that of
\* the entry that failed.
C8_CopyFailureIsolated ==
    (pc = "done" /\ run = 1 /\ faults = 1) =>
        \A i \in StaleLines :
            Did("copy_fail", i) =>
                \A j \in StaleLines : j > i => Did("record", j)

\* C9 (as claimed): once the manifest has been opened no failure of a step
\* ends the run; it goes on to the two writes.  (Stated of the runs that leave
\* the working root in place: what follows its deletion is left out.)
C9_NoStepEndsTheRun == ~root_removed => pc # "crashed"

\* The destinations, relative to the working root, of the entries whose clone
\* and copy succeeded in this run, in manifest order.
RECURSIVE SuccessPaths(_)
SuccessPaths(entries) ==
    IF entries = <<>> THEN <<>>
    ELSE (IF Did("copy", Head(entries).line)
          THEN <<RelPath(Head(entries).target_path)>> ELSE <<>>)
         \o SuccessPaths(Tail(entries))

\* C10 (as claimed): at the end of a run that opened the manifest, the
\* synced-paths file holds exactly the destinations of the entries
\* materialized in this run, in order, and nothing of its earlier content.
\* (Stated of the runs that leave the working root in place.)
C10_SyncedPathsExact ==
    (pc \in {"done", "crashed"} /\ ~root_removed) =>
        synced_file = [exists |-> TRUE, lines |-> SuccessPaths(packages_entries)]

\* C10, for a run that reached the two writes.
C10_SyncedPathsExactAfterWrite ==
    pc = "done" =>
        synced_file = [exists |-> TRUE, lines |-> SuccessPaths(packages_entries)]

\* The steps a run logs: probes, the steps on one entry, the writes.
ProbeOps == {"probe_fail", "probe_same", "probe_new"}

WriteOps == {"write_synced", "write_packages", "crash_write"}

\* The place of a step within the processing of one entry.
Rank(op) ==
    CASE op \in {"clean", "clean_fail", "clean_absent", "clean_refused", "crash_clean"} -> 1
      [] op \in {"clone_full", "clone_shallow", "clone_fail"} -> 2
      [] op \in {"strip", "crash_strip"} -> 3
      [] op \in {"mkdir", "crash_mkdir"} -> 4
      [] op \in {"copy", "copy_fail"} -> 5
      [] op \in {"record", "crash_record"} -> 6
      [] op \in {"cleanup", "crash_cleanup"} -> 7
      [] OTHER -> 0

EntryOp(op) == Rank(op) > 0

\* Every line of the manifest the run opened has been read, and every entry
\* among them probed.
AllProbed ==
    /\ Len(packages_lines) = Len(prev.packages.lines)
    /\ \A i \in EntryLines : \E k \in 1..Len(log) : log[k].op \in ProbeOps /\ log[k].line = i

\* C11: in a run, the probes come first and in manifest order; no entry is
\* cleaned, cloned or copied before every line has been read and probed; the
\* stale entries are then dealt with one at a time in manifest order, each
\* one's steps in the order clean, clone, strip, mkdir, copy, record, cleanup;
\* the synced-paths file is written after every stale entry has been
\* attempted, and the manifest right after it.
C11_Ordering ==
    \A k \in 1..Len(log) :
        /\ log[k].op \in ProbeOps =>
              \A j \in 1..(k - 1) : log[j].op \in ProbeOps /\ log[j].line < log[k].line
        /\ EntryOp(log[k].op) =>
              /\ AllProbed
              /\ log[k].line \in StaleLines
              /\ \A j \in 1..(k - 1) :
                    /\ log[j].op \notin WriteOps
                    /\ EntryOp(log[j].op) =>
                          \/ log[j].line < log[k].line
                          \/ /\ log[j].line = log[k].line
                             /\ Rank(log[j].op) < Rank(log[k].op)
        /\ log[k].op = "write_synced" =>
              /\ AllProbed
              /\ \A i \in StaleLines : Touched(i)
              /\ \A j \in 1..(k - 1) : log[j].op \notin WriteOps
        /\ log[k].op = "write_packages" => k > 1 /\ log[k - 1].op = "write_synced"

\* C11 witness: a run over two stale entries materialized both and wrote the
\* two files.
C11_Witness ==
    /\ pc = "done"
    /\ Len(packages_entries) = 2
    /\ Did("record", 1) /\ Did("record", 2)
    /\ Did("probe_new", 1) /\ Did("probe_new", 2)

\* A run is started where the file "packages" is not there.
StartsWithoutManifest == RunOver /\ ~packages_file.exists /\ run' = run + 1

\* C12: a run started without the manifest file ends at once: no probe, no
\* step on any entry, the tree as it was, and neither the synced-paths file nor
\* the manifest created or modified.
C12_MissingManifestAborts ==
    [][StartsWithoutManifest =>
          /\ pc' = "aborted"
          /\ log' = <<>>
          /\ packages_file' = packages_file
          /\ synced_file' = synced_file
          /\ fs' = fs
          /\ scratch' = scratch]_vars
    /\ [](pc = "aborted" => log = <<>> /\ ~packages_file.exists /\ synced_file = prev.synced)

\* C12 witness: a run found no manifest in a working root that is there, and
\* left the synced-paths file of before.
C12_Witness ==
    /\ pc = "aborted"
    /\ ~root_removed
    /\ run = 1
    /\ synced_file.exists /\ synced_file.lines # <<>>

\* The line an entry's own values regenerate.
OwnLine(entry) ==
    CanonicalLine([repo_url |-> entry.repo_url, target_path |-> entry.target_path,
                   latest_hash |-> entry.latest_hash])

\* C13 (as claimed): after a run that materialized every stale entry, the
\* line of each of them is the canonical line of its own location, its own
\* destination and its own probed revision, also when another entry of the
\* manifest has the same location.
C13_OwnCanonicalLine ==
    (pc = "done" /\ \A i \in StaleLines : Did("record", i)) =>
        \A k \in 1..Len(packages_entries) :
            packages_entries[k].needs_sync =>
                packages_file.lines[packages_entries[k].line] = OwnLine(packages_entries[k])

\* The step at hand is a Clean step whose removal fails.
CleanFails == pc = "clean" /\ log' = Append(log, Event("clean_fail", Entry.line))

\* The step at hand is the successful copy of an entry whose Clean step failed.
CopiesAfterCleanFailed == pc = "copy" /\ Did("clean_fail", Entry.line) /\ pc' = "record"

\* The elements of a list
Range(seq) == {seq[k] : k \in 1..Len(seq)}

\* The entries whose Clean step failed and whose copy succeeded in this run.
CopiedOverStale ==
    {k \in 1..Len(packages_entries) :
        /\ Did("clean_fail", packages_entries[k].line)
        /\ Did("copy", packages_entries[k].line)}

\* C14: a Clean step that fails removes nothing and the entry goes on to the
\* clone; its copy, when it succeeds, puts the probed revision at the
\* destination over the content left there; the destination is then appended
\* to the synced-paths list and the entry is in the updated set, so that the
\* files written at the end of the run list the destination and hold the
\* entry's line rewritten with the probed revision.
C14_CleanFailureContinues ==
    /\ [][/\ CleanFails => pc' = "clone" /\ ent' = ent /\ fs' = fs
          /\ CopiesAfterCleanFailed =>
                /\ AbsPath(Entry.target_path) \in DOMAIN fs'
                /\ fs'[AbsPath(Entry.target_path)]
                      = Content(Entry.latest_hash, TRUE)]_vars
    /\ [](\A k \in CopiedOverStale :
            /\ packages_entries[k].repo_url \in DOMAIN updated_entries
            /\ (Did("record", packages_entries[k].line) \/ pc = "record")
            /\ Did("record", packages_entries[k].line) =>
                  RelPath(packages_entries[k].target_path) \in Range(synced_paths)
            /\ pc = "done" =>
                  /\ RelPath(packages_entries[k].target_path) \in Range(synced_file.lines)
                  /\ ~Kept(packages_entries[k].line)
                  /\ parse_line(packages_file.lines[packages_entries[k].line]).current_hash
                        = packages_entries[k].latest_hash)

\* C14 witness: a run has ended in which an entry's Clean step failed, its
\* clone and copy succeeded, and its line was rewritten.
C14_Witness ==
    /\ pc = "done"
    /\ \E k \in CopiedOverStale :
          /\ Did("record", packages_entries[k].line)
          /\ ~Kept(packages_entries[k].line)
          /\ RelPath(packages_entries[k].target_path) \in Range(synced_file.lines)

\* What parse_line reads from the line regenerated for an entry with latest
\* revision R.
Reparsed(entry, R) ==
    parse_line(CanonicalLine([repo_url |-> entry.repo_url,
                              target_path |-> entry.target_path,
                              latest_hash |-> R]))

\* C15 (as claimed): the line regenerated from an entry and a revision R
\* parses to the entry's location, the entry's destination and the recorded
\* revision R.
C15_RoundTrip ==
    \A k \in 1..Len(packages_entries) : \A R \in Revisions :
        LET entry == packages_entries[k]
            again == Reparsed(entry, R)
        IN  /\ again.repo_url = entry.repo_url
            /\ again.target_path = entry.target_path
            /\ again.current_hash = R

\* C15, for the entries whose destination is not empty.
C15_RoundTripNonEmpty ==
    \A k \in 1..Len(packages_entries) : \A R \in Revisions :
        LET entry == packages_entries[k]
            again == Reparsed(entry, R)
        IN  ~Falsy(entry.target_path) =>
                /\ again.repo_url = entry.repo_url
                /\ again.target_path = entry.target_path
                /\ again.current_hash = R

\* The manifest line says of its entry that it is at the head revision of its
\* location.
RecordsLatest(line) ==
    LET l == parse_line(line)
    IN  /\ ~Falsy(l.repo_url)
        /\ l.repo_url \in DOMAIN upstream
        /\ l.current_hash = upstream[l.repo_url]

\* The destination of the entry on the manifest line holds the head revision
\* of its location.
HoldsLatest(line) ==
    LET l == parse_line(line)
    IN  /\ ~Falsy(l.target_path)
        /\ AbsPath(l.target_path) \in DOMAIN fs
        /\ fs[AbsPath(l.target_path)].rev = upstream[l.repo_url]

\* The stale entries whose clone or copy failed in this run.
FailedEntries ==
    {k \in 1..Len(packages_entries) :
        /\ packages_entries[k].needs_sync
        /\ \/ Did("clone_fail", packages_entries[k].line)
           \/ Did("copy_fail", packages_entries[k].line)}

\* C16 (as claimed): when a run is over, the line of a stale entry whose clone
\* or copy failed does not record the head revision, so that the next run
\* finds the entry stale again; and no line of the manifest records the head
\* revision of an entry whose destination is missing or holds another
\* revision.
C16_Convergence ==
    pc = "done" =>
        /\ \A k \in FailedEntries :
              ~RecordsLatest(packages_file.lines[packages_entries[k].line])
        /\ \A i \in 1..Len(packages_file.lines) :
              RecordsLatest(packages_file.lines[i]) => HoldsLatest(packages_file.lines[i])

\* C16, for a first run in which no probe, clone or copy failed and no two
\* entries have one location: the lines that record the head revision have it
\* in place.
C16_ConvergenceWithoutFailure ==
    (/\ pc = "done"
     /\ run = 1
     /\ FailedEntries = {}
     /\ \A j, k \in 1..Len(packages_entries) :
           packages_entries[j].repo_url = packages_entries[k].repo_url => j = k
     /\ \A i \in EntryLines : i \notin ProbeFailed(log)) =>
        \A i \in 1..Len(packages_file.lines) :
            RecordsLatest(packages_file.lines[i]) => HoldsLatest(packages_file.lines[i])

====
